---- MODULE Spec2Model ----
(***************************************************************************)
(* Model of the dice module of solo-ttrpg-helper (src/dice/mod.rs):        *)
(* Die, DiceSpecPart, Dice (new / from_str / Display / roll) and           *)
(* RollResult::total.                                                      *)
(*                                                                         *)
(* A Rust &str / String is a sequence of one-character strings.            *)
(* Option<T> is a sequence of length at most one: None is <<>> and         *)
(* Some(v) is <<v>>.  A (Sides, usize) pair is the tuple <<sides, count>>. *)
(* Result<T, DiceError> is a record with kind "Ok" (field val) or "Err"    *)
(* (field err, the payload of DiceError::Unparseable); a panic of the      *)
(* thread is the kind "Panic".                                             *)
(***************************************************************************)
EXTENDS Integers, Sequences, FiniteSets, TLC

(***************************************************************************)
(* Integer types of the program (mod.rs lines 6-8) and usize.              *)
(***************************************************************************)
I32_MAX == 2147483647
I32_MIN == (-2147483647) - 1
U16_MAX == 65535

\* A usize value (64-bit target) is the sequence of its decimal digits, most
\* significant first, without leading zeros: 0 is <<0>>, 12 is <<1, 2>>.
\* usize::MAX = 18446744073709551615 and 2^64:
UsizeMaxDigits ==
    <<1, 8, 4, 4, 6, 7, 4, 4, 0, 7, 3, 7, 0, 9, 5, 5, 1, 6, 1, 5>>

UsizeModulusDigits ==
    <<1, 8, 4, 4, 6, 7, 4, 4, 0, 7, 3, 7, 0, 9, 5, 5, 1, 6, 1, 6>>

\* The largest capacity of a Vec<(Die, Sides)> (4-byte elements):
\* isize::MAX / 4 = 2305843009213693951.
VecCapacityMaxDigits ==
    <<2, 3, 0, 5, 8, 4, 3, 0, 0, 9, 2, 1, 3, 6, 9, 3, 9, 5, 1>>

None == <<>>
Some(v) == <<v>>

Ok(v) == [kind |-> "Ok", val |-> v]
Err(e) == [kind |-> "Err", err |-> e]
Panic(m) == [kind |-> "Panic", msg |-> m]

(***************************************************************************)
(* Text primitives of the standard library, as the code uses them.         *)
(***************************************************************************)
DigitChars == <<"0", "1", "2", "3", "4", "5", "6", "7", "8", "9">>

IsDigit(c) == \E i \in 1..10 : DigitChars[i] = c

DigitVal(c) == (CHOOSE i \in 1..10 : DigitChars[i] = c) - 1

\* char::is_whitespace: the characters of the Unicode White_Space property
\* that a string of this module can hold (U+0009..U+000D, U+0020, U+0085,
\* U+00A0, U+1680); U+2000..U+200A, U+2028, U+2029, U+202F, U+205F and
\* U+3000 cannot be written here.
WhiteSpace ==
    {"\t", "\n", "", "\f", "\r", " ", "", " ", " "}

IsWhitespace(c) == c \in WhiteSpace

RECURSIVE trim_start(_)
trim_start(s) ==
    IF s # <<>> /\ IsWhitespace(Head(s)) THEN trim_start(Tail(s)) ELSE s

RECURSIVE trim_end(_)
trim_end(s) ==
    IF s # <<>> /\ IsWhitespace(s[Len(s)])
    THEN trim_end(SubSeq(s, 1, Len(s) - 1))
    ELSE s

trim(s) == trim_end(trim_start(s))

starts_with(s, c) == s # <<>> /\ Head(s) = c

contains(s, c) == \E i \in 1..Len(s) : s[i] = c

RECURSIVE trim_start_matches(_, _)
trim_start_matches(s, c) ==
    IF s # <<>> /\ Head(s) = c THEN trim_start_matches(Tail(s), c) ELSE s

\* str::split(c): the pieces between the occurrences of c, empty pieces kept.
RECURSIVE split(_, _)
split(s, c) ==
    IF ~contains(s, c)
    THEN <<s>>
    ELSE LET i == CHOOSE k \in 1..Len(s) :
                      s[k] = c /\ \A j \in 1..(k - 1) : s[j] # c
         IN  <<SubSeq(s, 1, i - 1)>> \o split(SubSeq(s, i + 1, Len(s)), c)

\* [T]::join(sep) over strings.
RECURSIVE join(_, _)
join(parts, sep) ==
    IF parts = <<>> THEN <<>>
    ELSE IF Len(parts) = 1 THEN parts[1]
    ELSE parts[1] \o sep \o join(Tail(parts), sep)

(***************************************************************************)
(* str::parse::<integer>() (core::num::from_str_radix, radix 10): an       *)
(* empty text and a lone sign are errors; a leading '+' is accepted by     *)
(* every integer type and a leading '-' by the signed ones only; every     *)
(* other character must be a digit; the digits are accumulated with        *)
(* checked_mul / checked_add (checked_sub for a negative number).          *)
(***************************************************************************)
AllDigits(s) == \A i \in 1..Len(s) : IsDigit(s[i])

\* Accumulate upwards; <<>> on overflow past hi.
RECURSIVE AccumulatePos(_, _, _)
AccumulatePos(s, acc, hi) ==
    IF s = <<>> THEN <<acc>>
    ELSE LET d == DigitVal(Head(s)) IN
         IF acc > (hi - d) \div 10 THEN <<>>
         ELSE AccumulatePos(Tail(s), acc * 10 + d, hi)

\* Accumulate downwards; <<>> on overflow below lo.
RECURSIVE AccumulateNeg(_, _, _)
AccumulateNeg(s, acc, lo) ==
    IF s = <<>> THEN <<acc>>
    ELSE LET d == DigitVal(Head(s)) IN
         IF acc < (lo + d + 9) \div 10 THEN <<>>
         ELSE AccumulateNeg(Tail(s), acc * 10 - d, lo)

\* Digits with the leading zeros removed (one digit is always kept).
RECURSIVE StripZeros(_)
StripZeros(u) ==
    IF Len(u) > 1 /\ Head(u) = 0 THEN StripZeros(Tail(u)) ELSE u

\* a <= b on digit sequences without leading zeros.
RECURSIVE DigitsAtMost(_, _)
DigitsAtMost(a, b) ==
    IF Len(a) # Len(b) THEN Len(a) < Len(b)
    ELSE IF a = <<>> THEN TRUE
    ELSE IF Head(a) # Head(b) THEN Head(a) < Head(b)
    ELSE DigitsAtMost(Tail(a), Tail(b))

Reverse(u) == [i \in 1..Len(u) |-> u[Len(u) + 1 - i]]

\* a + b + carry, least significant digit first.
RECURSIVE AddFromLow(_, _, _)
AddFromLow(a, b, carry) ==
    IF a = <<>> /\ b = <<>> THEN (IF carry = 0 THEN <<>> ELSE <<carry>>)
    ELSE LET x == IF a = <<>> THEN 0 ELSE Head(a)
             y == IF b = <<>> THEN 0 ELSE Head(b)
             t == x + y + carry
         IN  <<t % 10>> \o AddFromLow(IF a = <<>> THEN a ELSE Tail(a),
                                      IF b = <<>> THEN b ELSE Tail(b), t \div 10)

\* a - b - borrow for a >= b, least significant digit first.
RECURSIVE SubFromLow(_, _, _)
SubFromLow(a, b, borrow) ==
    IF a = <<>> THEN <<>>
    ELSE LET y == IF b = <<>> THEN 0 ELSE Head(b)
             t == Head(a) - y - borrow
         IN  <<t % 10>> \o SubFromLow(Tail(a), IF b = <<>> THEN b ELSE Tail(b),
                                      IF t < 0 THEN 1 ELSE 0)

DigitsAdd(a, b) == StripZeros(Reverse(AddFromLow(Reverse(a), Reverse(b), 0)))

DigitsSub(a, b) == StripZeros(Reverse(SubFromLow(Reverse(a), Reverse(b), 0)))

\* The usize value of a small number, and back.
RECURSIVE usize_of(_)
usize_of(n) ==
    IF n < 10 THEN <<n>> ELSE usize_of(n \div 10) \o <<n % 10>>

RECURSIVE usize_to_int(_)
usize_to_int(u) ==
    IF Len(u) = 1 THEN u[1]
    ELSE usize_to_int(SubSeq(u, 1, Len(u) - 1)) * 10 + u[Len(u)]

\* `a + b` on usize: like i32, a panic under overflow checks and a wrap
\* modulo 2^64 without them.
add_usize(a, b, overflow_checks) ==
    LET sum == DigitsAdd(a, b) IN
    IF DigitsAtMost(sum, UsizeMaxDigits) THEN [kind |-> "Ok", val |-> sum]
    ELSE IF overflow_checks
    THEN [kind |-> "Panic", msg |-> "attempt to add with overflow"]
    ELSE [kind |-> "Ok", val |-> DigitsSub(sum, UsizeModulusDigits)]

\* The sign and the digits, or <<>> when the text is no number at all.
SignAndDigits(src, signed) ==
    IF src = <<>> THEN <<>>
    ELSE IF Head(src) \in {"+", "-"} /\ Len(src) = 1 THEN <<>>
    ELSE LET positive == ~(signed /\ Head(src) = "-")
             digits == IF Head(src) = "+" \/ (signed /\ Head(src) = "-")
                       THEN Tail(src) ELSE src
         IN  IF AllDigits(digits) THEN <<[positive |-> positive, digits |-> digits]>>
             ELSE <<>>

\* str::parse::<i32>(): Some(value) or None for any ParseIntError.
parse_i32(src) ==
    LET sd == SignAndDigits(src, TRUE) IN
    IF sd = <<>> THEN None
    ELSE IF sd[1].positive THEN AccumulatePos(sd[1].digits, 0, I32_MAX)
    ELSE AccumulateNeg(sd[1].digits, 0, I32_MIN)

\* str::parse::<u16>().
parse_u16(src) ==
    LET sd == SignAndDigits(src, FALSE) IN
    IF sd = <<>> THEN None ELSE AccumulatePos(sd[1].digits, 0, U16_MAX)

\* str::parse::<usize>() on a 64-bit target: the checked accumulation
\* fails exactly when the number exceeds usize::MAX.
parse_usize(src) ==
    LET sd == SignAndDigits(src, FALSE) IN
    IF sd = <<>> THEN None
    ELSE LET u == StripZeros([i \in 1..Len(sd[1].digits) |->
                                 DigitVal(sd[1].digits[i])])
         IN  IF DigitsAtMost(u, UsizeMaxDigits) THEN Some(u) ELSE None

(***************************************************************************)
(* Display of the integer types ("{}"): decimal digits, '-' for a negative *)
(* number, no '+' and no padding.                                          *)
(***************************************************************************)
RECURSIVE fmt_unsigned(_)
fmt_unsigned(n) ==
    IF n < 10 THEN <<DigitChars[n + 1]>>
    ELSE fmt_unsigned(n \div 10) \o <<DigitChars[(n % 10) + 1]>>

\* The digits of the magnitude of a negative number, without negating it.
RECURSIVE fmt_magnitude(_)
fmt_magnitude(n) ==
    LET q == IF n % 10 = 0 THEN n \div 10 ELSE (n \div 10) + 1
        d == (q * 10) - n
    IN  IF q = 0 THEN <<DigitChars[d + 1]>>
        ELSE fmt_magnitude(q) \o <<DigitChars[d + 1]>>

fmt_i32(n) == IF n >= 0 THEN fmt_unsigned(n) ELSE <<"-">> \o fmt_magnitude(n)

\* Display of a usize value.
fmt_usize(u) == [i \in 1..Len(u) |-> DigitChars[u[i] + 1]]

(***************************************************************************)
(* i32 arithmetic.  `a + b` on i32 panics ("attempt to add with overflow") *)
(* when the build has overflow checks (the dev and test profiles) and      *)
(* wraps modulo 2^32 otherwise (the release profile).                      *)
(***************************************************************************)
AddOverflows(a, b) ==
    \/ b > 0 /\ a > I32_MAX - b
    \/ b < 0 /\ a < I32_MIN - b

\* a + b modulo 2^32, computed without leaving the 32-bit range.
WrappingAdd(a, b) ==
    IF b > 0 /\ a > I32_MAX - b THEN (a + I32_MIN) + (b + I32_MIN)
    ELSE IF b < 0 /\ a < I32_MIN - b THEN (a - I32_MIN) + (b - I32_MIN)
    ELSE a + b

\* Result of `a + b`: Ok(sum), or Panic under overflow checks.
add_i32(a, b, overflow_checks) ==
    IF AddOverflows(a, b) /\ overflow_checks
    THEN Panic("attempt to add with overflow")
    ELSE Ok(WrappingAdd(a, b))

(***************************************************************************)
(* Die (mod.rs 16-48).                                                     *)
(***************************************************************************)
Die(sides) == [sides |-> sides]

\* impl Display for Die: "d{sides}".
Die_fmt(die) == <<"d">> \o fmt_unsigned(die.sides)

\* Mutant of Die_from_str: a parser that refuses a side count of zero.
Die_from_str_nonzero(s) ==
    LET trimmed == trim(s) IN
    IF starts_with(trimmed, "d")
    THEN LET sides == parse_u16(trim_start_matches(trimmed, "d")) IN
         IF sides = None \/ sides = Some(0) THEN Err(s) ELSE Ok(Die(sides[1]))
    ELSE Err(s)

\* impl FromStr for Die.
Die_from_str(s) ==
    LET trimmed == trim(s) IN
    IF starts_with(trimmed, "d")
    THEN LET sides == parse_u16(trim_start_matches(trimmed, "d")) IN
         IF sides = None THEN Err(s) ELSE Ok(Die(sides[1]))
    ELSE Err(s)

\* Mutant of Die_roll: the range 0..=sides.
Die_roll_from_zero(die) == 0..die.sides

\* Die::roll: the values gen_range(1..=sides) can return; gen_range panics
\* on an empty range, that is when sides = 0.
Die_roll(die) == 1..die.sides

Die_roll_panics(die) == die.sides < 1

(***************************************************************************)
(* DiceSpecPart (mod.rs 50-80).                                            *)
(***************************************************************************)
PartDie(die, count) == [tag |-> "Die", die |-> die, count |-> count]
PartModifier(m) == [tag |-> "Modifier", m |-> m]

\* impl FromStr for DiceSpecPart.
DiceSpecPart_from_str(s) ==
    IF contains(s, "d")
    THEN LET parts == split(s, "d") IN
         IF Len(parts) # 2 THEN Err(s)
         ELSE LET count == IF parts[1] = <<>> THEN Some(usize_of(1))
                           ELSE parse_usize(parts[1])
              IN  IF count = None THEN Err(s)
                  ELSE LET die == Die_from_str(<<"d">> \o parts[2]) IN
                       IF die.kind = "Err" THEN die
                       ELSE Ok(PartDie(die.val, count[1]))
    ELSE LET m == parse_i32(s) IN
         IF m = None THEN Err(s) ELSE Ok(PartModifier(m[1]))

(***************************************************************************)
(* Dice (mod.rs 82-166).                                                   *)
(***************************************************************************)
MkDice(counts, modifier) == [counts |-> counts, modifier |-> modifier]

\* Mutant of sort_key: the sides cast to a 16-bit signed integer.
sort_key_i16(pair) == -(IF pair[1] > 32767 THEN pair[1] - 65536 ELSE pair[1])

\* The key of Dice::new's sort_by_key: -(pair.0 as SignedSides).
sort_key(pair) == -(pair[1])

\* slice::sort_by_key: a stable sort, ascending in the key.
RECURSIVE sort_by_key(_)
sort_by_key(v) ==
    IF v = <<>> THEN <<>>
    ELSE LET front == sort_by_key(SubSeq(v, 1, Len(v) - 1))
             x == v[Len(v)]
             NotAfter(y) == sort_key(y) <= sort_key(x)
             After(y) == sort_key(y) > sort_key(x)
         IN  SelectSeq(front, NotAfter) \o <<x>> \o SelectSeq(front, After)

\* Dice::new.
Dice_new(counts, modifier) == MkDice(sort_by_key(counts), modifier)

\* The fold of Iterator::sum in Dice::num_dice from group i on: acc + count,
\* group after group.
RECURSIVE SumCounts(_, _, _, _)
SumCounts(counts, i, acc, overflow_checks) ==
    IF i > Len(counts) THEN [kind |-> "Ok", val |-> acc]
    ELSE LET next == add_usize(acc, counts[i][2], overflow_checks) IN
         IF next.kind = "Panic" THEN next
         ELSE SumCounts(counts, i + 1, next.val, overflow_checks)

\* Dice::num_dice: Ok(sum), or Panic when the sum overflows under
\* overflow checks.
num_dice(dice, overflow_checks) ==
    SumCounts(dice.counts, 1, usize_of(0), overflow_checks)

\* Vec::with_capacity(n) panics ("capacity overflow") when n elements need
\* more than isize::MAX bytes.
with_capacity_panics(n) == ~DigitsAtMost(n, VecCapacityMaxDigits)

\* The loop of Dice::from_str over the parts, from part i on.
RECURSIVE from_str_loop(_, _, _, _, _)
from_str_loop(segs, i, dice, total_mod, overflow_checks) ==
    IF i > Len(segs) THEN Ok(MkDice(dice, total_mod))
    ELSE LET part == DiceSpecPart_from_str(trim(segs[i])) IN
         IF part.kind = "Err" THEN part
         ELSE IF part.val.tag = "Die"
         THEN from_str_loop(segs, i + 1,
                            Append(dice, <<part.val.die.sides, part.val.count>>),
                            total_mod, overflow_checks)
         ELSE IF total_mod = None
         THEN from_str_loop(segs, i + 1, dice, Some(part.val.m), overflow_checks)
         ELSE LET sum == add_i32(total_mod[1], part.val.m, overflow_checks) IN
              IF sum.kind = "Panic" THEN sum
              ELSE from_str_loop(segs, i + 1, dice, Some(sum.val), overflow_checks)

\* Mutant of Dice_from_str: the parsed groups go through Dice::new's sort.
Dice_from_str_sorting(s, overflow_checks) ==
    LET r == from_str_loop(split(s, "+"), 1, <<>>, None, overflow_checks) IN
    IF r.kind = "Ok" THEN Ok(Dice_new(r.val.counts, r.val.modifier)) ELSE r

\* impl FromStr for Dice.
Dice_from_str(s, overflow_checks) ==
    from_str_loop(split(s, "+"), 1, <<>>, None, overflow_checks)

\* The text of one group in Display for Dice: "{count}{die}".
group_fmt(pair) == fmt_usize(pair[2]) \o Die_fmt(Die(pair[1]))

\* The text Display for Dice appends for the modifier.
modifier_fmt(modifier) ==
    IF modifier # None THEN <<"+", " ">> \o fmt_i32(modifier[1]) ELSE <<>>

\* impl Display for Dice.
Dice_fmt(dice) ==
    join([i \in 1..Len(dice.counts) |-> group_fmt(dice.counts[i])],
         <<" ", "+", " ">>)
    \o modifier_fmt(dice.modifier)

\* Mutant of roll_order: the inner loop runs 0..=count.
RECURSIVE roll_order_inclusive(_)
roll_order_inclusive(counts) ==
    IF counts = <<>> THEN <<>>
    ELSE [k \in 1..(usize_to_int(counts[1][2]) + 1) |-> Die(counts[1][1])]
         \o roll_order_inclusive(Tail(counts))

\* The dice Dice::roll rolls, in the order it rolls them: one Die per
\* iteration of the inner loop.
RECURSIVE roll_order(_)
roll_order(counts) ==
    IF counts = <<>> THEN <<>>
    ELSE [k \in 1..usize_to_int(counts[1][2]) |-> Die(counts[1][1])]
         \o roll_order(Tail(counts))

\* The outcomes pushed while rolling the given dice in order: every
\* sequence of (die, value) pairs, stopping short at the first die whose
\* roll panics.
RECURSIVE roll_outcomes(_)
roll_outcomes(order) ==
    IF order = <<>> THEN {<<>>}
    ELSE IF Die_roll_panics(order[1]) THEN {<<>>}
    ELSE {<<<<order[1], v>>>> \o rest :
             v \in Die_roll(order[1]), rest \in roll_outcomes(Tail(order))}

\* Option::unwrap_or_default on the modifier.
unwrap_or_default(modifier) == IF modifier = None THEN 0 ELSE modifier[1]

(***************************************************************************)
(* RollResult (mod.rs 168-183).                                            *)
(***************************************************************************)
MkRollResult(rolls, modifier) == [rolls |-> rolls, modifier |-> modifier]

\* The loop of RollResult::total from roll i on, then `sum += modifier`.
RECURSIVE total_loop(_, _, _, _)
total_loop(r, i, sum, overflow_checks) ==
    LET addend == IF i > Len(r.rolls) THEN r.modifier ELSE r.rolls[i][2]
        next == add_i32(sum, addend, overflow_checks)
    IN  IF next.kind = "Panic" THEN next
        ELSE IF i > Len(r.rolls) THEN next
        ELSE total_loop(r, i + 1, next.val, overflow_checks)

\* RollResult::total.
RollResult_total(r, overflow_checks) == total_loop(r, 1, 0, overflow_checks)

(***************************************************************************)
(* The callers' inputs.  A text handed to Dice::from_str is composed, as   *)
(* the tests of mod.rs compose theirs with format!, from a sequence of     *)
(* terms joined by '+': a die term (optional count, sides), a modifier     *)
(* term (a signed number) or a malformed term (its literal text), each     *)
(* with whitespace (lpad, rpad) around it.  A count is a usize value.      *)
(***************************************************************************)
MaxTerms == 3
MaxGroups == 3
MaxDice == 3
MaxRollSides == 3
MaxCoeff == 2
MaxMod == 2
MaxDieLen == 4

DieTerm(count, sides, lpad, rpad) ==
    [kind |-> "die", count |-> count, sides |-> sides, val |-> 0,
     text |-> <<>>, lpad |-> lpad, rpad |-> rpad]

ModTerm(val, lpad, rpad) ==
    [kind |-> "mod", count |-> None, sides |-> 0, val |-> val,
     text |-> <<>>, lpad |-> lpad, rpad |-> rpad]

BadTerm(text) ==
    [kind |-> "bad", count |-> None, sides |-> 0, val |-> 0,
     text |-> text, lpad |-> <<>>, rpad |-> <<>>]

\* The text of one term.
RenderTerm(t) ==
    t.lpad
    \o (IF t.kind = "die"
        THEN (IF t.count = None THEN <<>> ELSE fmt_usize(t.count[1]))
             \o <<"d">> \o fmt_unsigned(t.sides)
        ELSE IF t.kind = "mod" THEN fmt_i32(t.val)
        ELSE t.text)
    \o t.rpad

\* The text of an expression: its terms joined by '+'.
Render(ts) == join([i \in 1..Len(ts) |-> RenderTerm(ts[i])], <<"+">>)

DieTerms ==
    {DieTerm(None, 2, <<>>, <<>>), DieTerm(None, 3, <<" ">>, <<" ">>),
     DieTerm(Some(usize_of(2)), 3, <<>>, <<"\t">>),
     DieTerm(Some(usize_of(0)), 2, <<>>, <<>>),
     DieTerm(None, 0, <<>>, <<>>),
     DieTerm(Some(usize_of(0)), 0, <<" ">>, <<" ">>),
     DieTerm(Some(UsizeMaxDigits), 2, <<>>, <<>>)}

ModTerms ==
    {ModTerm(0, <<" ">>, <<>>), ModTerm(3, <<" ">>, <<" ">>),
     ModTerm(-7, <<"\n">>, <<>>), ModTerm(I32_MAX, <<>>, <<>>)}

\* Texts that are neither [<count>]d<sides> nor a signed integer.
BadTexts ==
    {<<>>, <<"3", "d", "d">>, <<"d">>, <<"2", " ", "d", "3">>,
     <<"d", "-", "2">>}

BadTerms == {BadTerm(t) : t \in BadTexts}

Terms == DieTerms \cup ModTerms \cup BadTerms

SeqsUpTo(S, n) == UNION {[1..k -> S] : k \in 0..n}

TermSeqs == SeqsUpTo(Terms, MaxTerms) \ {<<>>}

\* The arguments handed to Dice::new.
NewPairs == {0, 2, 3, U16_MAX} \X {usize_of(1), usize_of(2)}

NewArgs ==
    {[counts |-> c, modifier |-> m] :
        c \in SeqsUpTo(NewPairs, MaxGroups), m \in {None, Some(-7)}}

\* The texts handed to Die::from_str.
DieAlphabet == {"d", "8", "0", "+", "-", " ", "\t", "x"}

DieTexts == SeqsUpTo(DieAlphabet, MaxDieLen)

(***************************************************************************)
(* State.                                                                  *)
(*   overflow_checks  whether the build panics on integer overflow         *)
(*   terms, args      what the caller composed: the terms of the text, or  *)
(*                    the arguments of Dice::new (Option)                  *)
(*   input            the text handed to from_str                          *)
(*   pc               where the caller is                                  *)
(*   parsed           Option of the Result of Dice::from_str(input)        *)
(*   dice             Option of the Dice in hand                           *)
(*   text             Option of its Display text                           *)
(*   reparsed         Option of the Result of Dice::from_str(text)         *)
(*   outcomes         the (die, value) pairs pushed by Dice::roll          *)
(*   result           Option of the RollResult returned by Dice::roll      *)
(*   total            Option of the value returned by RollResult::total    *)
(*   die              Option of the Result of Die::from_str(input)         *)
(***************************************************************************)
VARIABLES overflow_checks, terms, args, input, pc, parsed, dice, text,
          reparsed, outcomes, result, total, die

vars == <<overflow_checks, terms, args, input, pc, parsed, dice, text,
          reparsed, outcomes, result, total, die>>

Blank ==
    /\ parsed = None
    /\ dice = None
    /\ text = None
    /\ reparsed = None
    /\ outcomes = <<>>
    /\ result = None
    /\ total = None
    /\ die = None

\* A caller holding either a text for Dice::from_str or arguments for
\* Dice::new.
Init ==
    /\ overflow_checks \in BOOLEAN
    /\ pc = "start"
    /\ \/ /\ terms \in TermSeqs
          /\ input = Render(terms)
          /\ args = None
       \/ /\ terms = <<>>
          /\ input = <<>>
          /\ args \in {Some(a) : a \in NewArgs}
    /\ Blank

\* let dice: Dice = input.parse()
DiceFromStr ==
    /\ pc = "start"
    /\ args = None
    /\ LET r == Dice_from_str(input, overflow_checks) IN
       /\ parsed' = Some(r)
       /\ dice' = IF r.kind = "Ok" THEN Some(r.val) ELSE None
       /\ pc' = IF r.kind = "Ok" THEN "have_dice"
                ELSE IF r.kind = "Err" THEN "parse_err"
                ELSE "parse_panic"
    /\ UNCHANGED <<overflow_checks, terms, args, input, text, reparsed,
                   outcomes, result, total, die>>

\* let dice = Dice::new(counts, modifier)
DiceNew ==
    /\ pc = "start"
    /\ args # None
    /\ dice' = Some(Dice_new(args[1].counts, args[1].modifier))
    /\ pc' = "have_dice"
    /\ UNCHANGED <<overflow_checks, terms, args, input, parsed, text,
                   reparsed, outcomes, result, total, die>>

\* let text = dice.to_string()
DiceFmt ==
    /\ pc = "have_dice"
    /\ text' = Some(Dice_fmt(dice[1]))
    /\ pc' = "formatted"
    /\ UNCHANGED <<overflow_checks, terms, args, input, parsed, dice,
                   reparsed, outcomes, result, total, die>>

\* text.parse::<Dice>()
DiceReparse ==
    /\ pc = "formatted"
    /\ reparsed' = Some(Dice_from_str(text[1], overflow_checks))
    /\ pc' = "reparsed"
    /\ UNCHANGED <<overflow_checks, terms, args, input, parsed, dice, text,
                   outcomes, result, total, die>>

\* Whether the dice of the groups are few enough to roll them here: at most
\* MaxDice dice, of at most MaxRollSides sides.
RECURSIVE FewDice(_, _)
FewDice(counts, room) ==
    IF counts = <<>> THEN TRUE
    ELSE /\ DigitsAtMost(counts[1][2], usize_of(room))
         /\ counts[1][2] # usize_of(0) => counts[1][1] <= MaxRollSides
         /\ FewDice(Tail(counts), room - usize_to_int(counts[1][2]))

\* let result = dice.roll(): Vec::with_capacity(self.num_dice()), then every
\* die is rolled in order; a panic of num_dice, of with_capacity or of the
\* roll of a die ends the call with no RollResult.  (An allocation that
\* fails although the capacity is legal is outside the model.)
DiceRoll ==
    /\ pc = "have_dice"
    /\ LET n == num_dice(dice[1], overflow_checks) IN
       IF n.kind = "Panic" \/ with_capacity_panics(n.val)
       THEN /\ outcomes' = <<>>
            /\ result' = None
            /\ pc' = "roll_panic"
       ELSE /\ FewDice(dice[1].counts, MaxDice)
            /\ LET order == roll_order(dice[1].counts) IN
               \E pushed \in roll_outcomes(order) :
                  /\ outcomes' = pushed
                  /\ IF Len(pushed) = Len(order)
                     THEN /\ result' = Some(MkRollResult(pushed,
                                             unwrap_or_default(dice[1].modifier)))
                          /\ pc' = "rolled"
                     ELSE /\ result' = None
                          /\ pc' = "roll_panic"
    /\ UNCHANGED <<overflow_checks, terms, args, input, parsed, dice, text,
                   reparsed, total, die>>

\* let t = result.total()
RollTotal ==
    /\ pc = "rolled"
    /\ LET t == RollResult_total(result[1], overflow_checks) IN
       /\ total' = IF t.kind = "Ok" THEN Some(t.val) ELSE None
       /\ pc' = IF t.kind = "Ok" THEN "totalled" ELSE "total_panic"
    /\ UNCHANGED <<overflow_checks, terms, args, input, parsed, dice, text,
                   reparsed, outcomes, result, die>>

Next ==
    \/ DiceFromStr
    \/ DiceNew
    \/ DiceFmt
    \/ DiceReparse
    \/ DiceRoll
    \/ RollTotal

Spec == Init /\ [][Next]_vars

(***************************************************************************)
(* The quickcheck property multi_roll_range_coeff_mod (mod.rs 330-340):    *)
(* the text is format!("{}d{} + d{} + {}", coeff, sides, sides_2,          *)
(* modifier), parsed, rolled and totalled.                                 *)
(***************************************************************************)
RangeTerms(coeff, sides, sides_2, modifier) ==
    <<DieTerm(Some(usize_of(coeff)), sides, <<>>, <<" ">>),
      DieTerm(None, sides_2, <<" ">>, <<" ">>),
      ModTerm(modifier, <<" ">>, <<>>)>>

RangeModifiers == ((-MaxMod)..MaxMod) \cup {-9999, 9999}

InitRange ==
    /\ overflow_checks \in BOOLEAN
    /\ pc = "start"
    /\ \E coeff \in 1..MaxCoeff, sides \in 1..MaxRollSides,
          sides_2 \in 1..MaxRollSides, modifier \in RangeModifiers :
          terms = RangeTerms(coeff, sides, sides_2, modifier)
    /\ input = Render(terms)
    /\ args = None
    /\ Blank

NextRange ==
    \/ DiceFromStr
    \/ DiceRoll
    \/ RollTotal

SpecRange == InitRange /\ [][NextRange]_vars

(***************************************************************************)
(* Die::from_str on its own.                                               *)
(***************************************************************************)
InitDie ==
    /\ overflow_checks \in BOOLEAN
    /\ pc = "die_start"
    /\ terms = <<>>
    /\ args = None
    /\ input \in DieTexts
    /\ Blank

\* let die = input.parse::<Die>()
DieFromStr ==
    /\ pc = "die_start"
    /\ die' = Some(Die_from_str(input))
    /\ pc' = "die_done"
    /\ UNCHANGED <<overflow_checks, terms, args, input, parsed, dice, text,
                   reparsed, outcomes, result, total>>

NextDie == DieFromStr

SpecDie == InitDie /\ [][NextDie]_vars

(***************************************************************************)
(* What the caller wrote, read off the terms rather than off the parser.   *)
(***************************************************************************)
IsDieTerm(t) == t.kind = "die"
IsModTerm(t) == t.kind = "mod"
IsBadTerm(t) == t.kind = "bad"

\* One (sides, count) pair per die term, in the order written; a term
\* written without a count stands for one die.
WrittenGroups(ts) ==
    LET ds == SelectSeq(ts, IsDieTerm) IN
    [i \in 1..Len(ds) |->
        <<ds[i].sides,
          IF ds[i].count = None THEN usize_of(1) ELSE ds[i].count[1]>>]

\* The values of the modifier terms, in the order written.
WrittenModifiers(ts) ==
    LET ms == SelectSeq(ts, IsModTerm) IN [i \in 1..Len(ms) |-> ms[i].val]

AllWellFormed(ts) == \A i \in 1..Len(ts) : ~IsBadTerm(ts[i])

LeftmostBad(ts) == CHOOSE i \in 1..Len(ts) :
                       IsBadTerm(ts[i]) /\ \A j \in 1..(i - 1) : ~IsBadTerm(ts[j])

\* Sums wider than 32 bits are kept as hi * 65536 + lo with 0 <= lo < 65536.
Wide(v) == [hi |-> v \div 65536, lo |-> v % 65536]

RECURSIVE WideSum(_)
WideSum(vals) ==
    IF vals = <<>> THEN [hi |-> 0, lo |-> 0]
    ELSE LET w == Wide(vals[1])
             r == WideSum(Tail(vals))
         IN  [hi |-> w.hi + r.hi + ((w.lo + r.lo) \div 65536),
              lo |-> (w.lo + r.lo) % 65536]

\* The number a digit text writes.
TextValue(t) == usize_to_int([i \in 1..Len(t) |-> DigitVal(t[i])])

ParsedOk == parsed # None /\ parsed[1].kind = "Ok"

IsSortedDesc(c) ==
    \A i \in 1..Len(c) : \A j \in (i + 1)..Len(c) : c[i][1] >= c[j][1]

\* The groups of c that have the given sides, in their order in c.
WithSides(c, n) == LET Same(pair) == pair[1] = n IN SelectSeq(c, Same)

\* out is c reordered by descending sides with ties kept in c's order.
IsStableDescSort(c, out) ==
    /\ Len(out) = Len(c)
    /\ IsSortedDesc(out)
    /\ \A n \in {c[i][1] : i \in 1..Len(c)} \cup {out[i][1] : i \in 1..Len(out)} :
          WithSides(out, n) = WithSides(c, n)

\* The number of dice of the first i groups (of a few dice).
RECURSIVE DiceUpTo(_, _)
DiceUpTo(c, i) ==
    IF i = 0 THEN 0 ELSE DiceUpTo(c, i - 1) + usize_to_int(c[i][2])

\* The number of dice of all the groups, however many.
RECURSIVE DiceInAll(_)
DiceInAll(c) ==
    IF c = <<>> THEN <<0>> ELSE DigitsAdd(c[1][2], DiceInAll(Tail(c)))

\* The rolls of all the dice fit a Vec: at most isize::MAX / 4 dice.
FitsVec(c) == DigitsAtMost(DiceInAll(c), VecCapacityMaxDigits)

\* The group the k-th die rolled belongs to.
GroupOfDie(c, k) == CHOOSE i \in 1..Len(c) : DiceUpTo(c, i - 1) < k /\ k <= DiceUpTo(c, i)

HasLiveZeroGroup(c) == \E i \in 1..Len(c) : c[i][1] = 0 /\ c[i][2] # <<0>>

(***************************************************************************)
(* C1.  Round trip: whenever Dice::from_str(s) is Ok(d), parsing the       *)
(* Display text of d is Ok(d) again - also for an expression that has a    *)
(* modifier and no die group.                                              *)
(***************************************************************************)
C1_RoundTrip ==
    (pc = "reparsed" /\ ParsedOk) => reparsed[1] = Ok(parsed[1].val)

(***************************************************************************)
(* C2.  After a successful parse the modifier is None exactly when no      *)
(* modifier term was written, and otherwise Some(k) with k the sum of all  *)
(* the modifier terms written.                                             *)
(***************************************************************************)
C2_ModifierIsSum ==
    ParsedOk =>
        LET m == parsed[1].val.modifier
            written == WrittenModifiers(terms)
        IN  /\ (m = None) <=> (written = <<>>)
            /\ m # None => Wide(m[1]) = WideSum(written)

(***************************************************************************)
(* C3.  After a successful parse the groups are exactly the die terms      *)
(* written, one (sides, count) pair per term in the order written: equal   *)
(* sides are not merged, nothing is reordered, a missing count is 1 and    *)
(* modifier terms add no group.                                            *)
(***************************************************************************)
C3_GroupsAsWritten ==
    ParsedOk => parsed[1].val.counts = WrittenGroups(terms)

\* "d2+ d3 +2d3<TAB>" parsed: ascending sides, and two groups of equal sides.
C3_Witness ==
    /\ ParsedOk
    /\ input = <<"d", "2", "+", " ", "d", "3", " ", "+", "2", "d", "3", "\t">>
    /\ dice = Some(MkDice(<<<<2, <<1>>>>, <<3, <<1>>>>, <<3, <<2>>>>>>, None))

(***************************************************************************)
(* C4.  For "<coeff>d<sides> + d<sides2> + <modifier>" the parse succeeds, *)
(* the roll and the total return, and every total t satisfies              *)
(* modifier < t <= modifier + coeff * sides + sides2.                      *)
(***************************************************************************)
C4_ModifierRange ==
    LET coeff == usize_to_int(terms[1].count[1])
        sides == terms[1].sides
        sides_2 == terms[2].sides
        modifier == terms[3].val
    IN  /\ pc \notin {"parse_err", "parse_panic", "roll_panic", "total_panic"}
        /\ pc = "totalled" =>
              /\ total[1] > modifier
              /\ total[1] <= modifier + (coeff * sides) + sides_2

\* "2d3 + d2 + -9999" rolled 3, 3 and 2: the upper bound itself.
C4_Witness ==
    /\ pc = "totalled"
    /\ terms = RangeTerms(2, 3, 2, -9999)
    /\ total = Some(-9991)

(***************************************************************************)
(* C5.  The Display text of a Dice is its groups as "<count>d<sides>"      *)
(* joined by " + ", followed by " + <modifier>" exactly when the modifier  *)
(* is present.                                                             *)
(***************************************************************************)
C5_CanonicalText ==
    pc = "formatted" =>
        LET c == dice[1].counts
            groups == [i \in 1..Len(c) |->
                          fmt_usize(c[i][2]) \o <<"d">> \o fmt_unsigned(c[i][1])]
            tail == IF dice[1].modifier = None THEN <<>>
                    ELSE <<" ", "+", " ">> \o fmt_i32(dice[1].modifier[1])
        IN  text[1] = join(groups, <<" ", "+", " ">>) \o tail

(***************************************************************************)
(* C6.  Die::from_str accepts a text exactly when, trimmed, it is 'd'      *)
(* followed by a number written in digits only, and then returns the Die   *)
(* of that side count; "dd8", "d+8", "d-8", "d" and texts without the      *)
(* leading 'd' are Err(Unparseable(the untrimmed text)).  (A side count    *)
(* of zero is not held against the claim here: see C10.)                   *)
(***************************************************************************)
C6_DieGrammar ==
    pc = "die_done" =>
        LET t == trim(input)
            wellFormed == /\ Len(t) >= 2
                          /\ t[1] = "d"
                          /\ AllDigits(Tail(t))
        IN  IF wellFormed
            THEN die[1] = Ok(Die(TextValue(Tail(t))))
            ELSE die[1] = Err(input)

(***************************************************************************)
(* C7.  Dice::from_str returns Ok exactly when every '+'-separated term    *)
(* is well formed, and otherwise the Err of the leftmost malformed term,   *)
(* whatever stands to its right.                                           *)
(***************************************************************************)
C7_FailFast ==
    parsed # None =>
        IF AllWellFormed(terms)
        THEN parsed[1].kind = "Ok"
        ELSE parsed[1] =
                 DiceSpecPart_from_str(trim(RenderTerm(terms[LeftmostBad(terms)])))

(***************************************************************************)
(* C8.  What roll() returns: the rolls of a RollResult are num_dice()      *)
(* entries, group by group in order, count_i entries (Die{sides_i}, v)     *)
(* with 1 <= v <= sides_i for group i and none for a group of count 0; the *)
(* modifier is the expression's, or 0 for None.                            *)
(***************************************************************************)
RollLayout ==
    pc = "rolled" =>
        LET c == dice[1].counts
            r == result[1]
        IN  /\ Len(r.rolls) = DiceUpTo(c, Len(c))
            /\ num_dice(dice[1], overflow_checks) = Ok(usize_of(Len(r.rolls)))
            /\ \A k \in 1..Len(r.rolls) :
                  /\ r.rolls[k][1] = Die(c[GroupOfDie(c, k)][1])
                  /\ r.rolls[k][2] >= 1
                  /\ r.rolls[k][2] <= c[GroupOfDie(c, k)][1]
            /\ r.modifier = (IF dice[1].modifier = None THEN 0
                             ELSE dice[1].modifier[1])

AllSidesPositive(c) == \A i \in 1..Len(c) : c[i][1] >= 1

(***************************************************************************)
(* C8: whenever every group has sides >= 1, roll() returns a RollResult,   *)
(* laid out as above.                                                      *)
(***************************************************************************)
C8_RollLayout ==
    pc \in {"rolled", "roll_panic"} =>
        /\ AllSidesPositive(dice[1].counts) => pc = "rolled"
        /\ RollLayout

(***************************************************************************)
(* C8 below the limits of usize and Vec: whenever every group has sides    *)
(* >= 1 and the counts sum to at most isize::MAX / 4, roll() returns a     *)
(* RollResult, laid out as above.                                          *)
(***************************************************************************)
C8_RollLayoutWhenFits ==
    pc \in {"rolled", "roll_panic"} =>
        /\ (AllSidesPositive(dice[1].counts) /\ FitsVec(dice[1].counts)) =>
              pc = "rolled"
        /\ RollLayout

\* "d2+0d2+2d3<TAB>" rolled 2, 1, 3: the group of count 0 leaves no entry.
C8_Witness ==
    /\ pc = "rolled"
    /\ dice = Some(MkDice(<<<<2, <<1>>>>, <<2, <<0>>>>, <<3, <<2>>>>>>, None))
    /\ result = Some(MkRollResult(<<<<Die(2), 2>>, <<Die(3), 1>>, <<Die(3), 3>>>>, 0))

(***************************************************************************)
(* C9.  Dice::new returns the given groups reordered by descending sides,  *)
(* ties in their given order, counts and modifier untouched, for sides     *)
(* from 0 to 65535; Dice::from_str leaves groups written in another order  *)
(* unsorted.                                                               *)
(***************************************************************************)
C9_NewSortsStable ==
    /\ (args # None /\ dice # None) =>
          /\ IsStableDescSort(args[1].counts, dice[1].counts)
          /\ dice[1].modifier = args[1].modifier
    /\ (ParsedOk /\ ~IsSortedDesc(WrittenGroups(terms))) =>
          ~IsSortedDesc(parsed[1].val.counts)

\* Dice::new(&[(0,1), (65535,2), (0,2)], Some(-7)).
C9_Witness ==
    /\ pc = "have_dice"
    /\ args = Some([counts |-> <<<<0, <<1>>>>, <<U16_MAX, <<2>>>>, <<0, <<2>>>>>>,
                    modifier |-> Some(-7)])
    /\ dice = Some(MkDice(<<<<U16_MAX, <<2>>>>, <<0, <<1>>>>, <<0, <<2>>>>>>,
                          Some(-7)))

(***************************************************************************)
(* C10.  The parser accepts a side count of zero, and a roll() that fails  *)
(* leaves no RollResult and has sampled no value for a zero-sided die.     *)
(***************************************************************************)
ZeroSidedParsesAndFails ==
    /\ (parsed # None /\ \A i \in 1..Len(terms) : IsDieTerm(terms[i])) =>
          parsed[1] = Ok(MkDice(WrittenGroups(terms), None))
    /\ pc = "roll_panic" =>
          /\ result = None
          /\ \A k \in 1..Len(outcomes) : outcomes[k][1].sides # 0
    /\ pc = "rolled" => result # None

(***************************************************************************)
(* C10: the parser accepts zero sides, and roll() fails exactly when some   *)
(* group has sides = 0 and count >= 1; it returns normally when the only   *)
(* zero-sided groups have count 0.                                         *)
(***************************************************************************)
C10_ZeroSided ==
    /\ ZeroSidedParsesAndFails
    /\ pc \in {"rolled", "roll_panic"} =>
          ((pc = "roll_panic") <=> HasLiveZeroGroup(dice[1].counts))

(***************************************************************************)
(* C10 below the limits of usize and Vec: when the counts sum to at most   *)
(* isize::MAX / 4, roll() fails exactly when some group has sides = 0 and  *)
(* count >= 1.                                                             *)
(***************************************************************************)
C10_ZeroSidedWhenFits ==
    /\ ZeroSidedParsesAndFails
    /\ (pc \in {"rolled", "roll_panic"} /\ FitsVec(dice[1].counts)) =>
          ((pc = "roll_panic") <=> HasLiveZeroGroup(dice[1].counts))

\* "d2+d0" rolled: the d2 shows 2, then the roll of the d0 fails.
C10_Witness ==
    /\ pc = "roll_panic"
    /\ parsed = Some(Ok(MkDice(<<<<2, <<1>>>>, <<0, <<1>>>>>>, None)))
    /\ outcomes = <<<<Die(2), 2>>>>
    /\ result = None

====
